---- MODULE Spec2Model ----
(***************************************************************************)
(* A model of the risk and execution engine of the sports-betting engine   *)
(* (src/sports-betting-engine/src/strategy.py).                            *)
(*                                                                         *)
(* Numbers.  The program computes with Python floats.  The model computes  *)
(* exactly, on decimal fractions:                                          *)
(*   - a probability is an integer number of hundredths (80 = 0.80);       *)
(*   - decimal odds are an integer number of hundredths (180 = 1.80);      *)
(*   - a stake fraction is an integer number of ten-thousandths            *)
(*     (300 = 0.0300 = 3%), the precision analyse rounds stakes to;        *)
(*   - money (bankroll, wager, profit) is an exact signed decimal "Dec"    *)
(*     of unbounded size, kept as a sequence of base-1000 limbs, because   *)
(*     a bankroll after k settlements has up to 6k decimal places.         *)
(***************************************************************************)
EXTENDS Integers, Sequences, FiniteSets, TLC

(***************************************************************************)
(* Exact decimals.  A magnitude is a sequence of limbs 0..999, least       *)
(* significant first, without high-order zero limbs (<<>> is zero).        *)
(* A Dec is [neg, mag, q] and stands for (-1)^neg * mag / 1000^q, in the   *)
(* normal form in which q is as small as possible, so that two Decs are    *)
(* equal as records exactly when they are equal as numbers.                *)
(***************************************************************************)
RECURSIVE NatToMag(_)
NatToMag(n) ==
    IF n = 0 THEN <<>> ELSE <<n % 1000>> \o NatToMag(n \div 1000)

RECURSIVE MagTrim(_)
MagTrim(m) ==
    IF m = <<>> THEN <<>>
    ELSE IF m[Len(m)] = 0 THEN MagTrim(SubSeq(m, 1, Len(m) - 1))
    ELSE m

RECURSIVE MagMulCarry(_, _, _)
MagMulCarry(m, c, carry) ==
    IF m = <<>> THEN NatToMag(carry)
    ELSE LET t == Head(m) * c + carry
         IN  <<t % 1000>> \o MagMulCarry(Tail(m), c, t \div 1000)

\* m * c for a natural c <= 2000000
MagMul(m, c) == MagTrim(MagMulCarry(m, c, 0))

RECURSIVE MagAddCarry(_, _, _)
MagAddCarry(a, b, carry) ==
    IF a = <<>> /\ b = <<>> THEN NatToMag(carry)
    ELSE LET x == IF a = <<>> THEN 0 ELSE Head(a)
             y == IF b = <<>> THEN 0 ELSE Head(b)
             t == x + y + carry
         IN  <<t % 1000>> \o MagAddCarry(IF a = <<>> THEN <<>> ELSE Tail(a),
                                         IF b = <<>> THEN <<>> ELSE Tail(b),
                                         t \div 1000)

MagAdd(a, b) == MagAddCarry(a, b, 0)

RECURSIVE MagSubBorrow(_, _, _)
MagSubBorrow(a, b, borrow) ==
    IF a = <<>> THEN <<>>
    ELSE LET y == IF b = <<>> THEN 0 ELSE Head(b)
             t == Head(a) - y - borrow
         IN  <<IF t < 0 THEN t + 1000 ELSE t>>
             \o MagSubBorrow(Tail(a), IF b = <<>> THEN <<>> ELSE Tail(b),
                             IF t < 0 THEN 1 ELSE 0)

\* a - b for magnitudes a >= b
MagSub(a, b) == MagTrim(MagSubBorrow(a, b, 0))

RECURSIVE MagCmpFrom(_, _, _)
MagCmpFrom(a, b, j) ==
    IF j = 0 THEN 0
    ELSE IF a[j] < b[j] THEN -1
    ELSE IF a[j] > b[j] THEN 1
    ELSE MagCmpFrom(a, b, j - 1)

\* -1, 0, 1 as a < b, a = b, a > b
MagCmp(a, b) ==
    IF Len(a) < Len(b) THEN -1
    ELSE IF Len(a) > Len(b) THEN 1
    ELSE MagCmpFrom(a, b, Len(a))

RECURSIVE Zeros(_)
Zeros(n) == IF n = 0 THEN <<>> ELSE <<0>> \o Zeros(n - 1)

\* m * 1000^n
MagShift(m, n) == IF m = <<>> THEN <<>> ELSE Zeros(n) \o m

RECURSIVE DecStrip(_, _, _)
DecStrip(neg, m, q) ==
    IF m = <<>> THEN [neg |-> FALSE, mag |-> <<>>, q |-> 0]
    ELSE IF q > 0 /\ Head(m) = 0 THEN DecStrip(neg, Tail(m), q - 1)
    ELSE [neg |-> neg, mag |-> m, q |-> q]

DecNorm(neg, m, q) == DecStrip(neg, MagTrim(m), q)

DecZero == [neg |-> FALSE, mag |-> <<>>, q |-> 0]

DecOfInt(n) == DecNorm(n < 0, NatToMag(IF n < 0 THEN -n ELSE n), 0)

DecNeg(x) == DecNorm(~x.neg, x.mag, x.q)

\* x * c / 1000^q for an integer c, |c| <= 2000000
DecScale(x, c, q) ==
    DecNorm(IF c < 0 THEN ~x.neg ELSE x.neg,
            MagMul(x.mag, IF c < 0 THEN -c ELSE c), x.q + q)

DecAdd(x, y) ==
    LET q  == IF x.q > y.q THEN x.q ELSE y.q
        a  == MagShift(x.mag, q - x.q)
        b  == MagShift(y.mag, q - y.q)
    IN  IF x.neg = y.neg THEN DecNorm(x.neg, MagAdd(a, b), q)
        ELSE IF MagCmp(a, b) >= 0 THEN DecNorm(x.neg, MagSub(a, b), q)
        ELSE DecNorm(y.neg, MagSub(b, a), q)

DecSub(x, y) == DecAdd(x, DecNeg(y))

\* the sign of x: -1, 0, 1
DecSign(x) == IF x.mag = <<>> THEN 0 ELSE IF x.neg THEN -1 ELSE 1

DecLess(x, y) == DecSign(DecSub(x, y)) < 0

DecLeq(x, y) == DecSign(DecSub(x, y)) <= 0


\* round(x, 2) of the program, on exact decimals: to the nearest hundredth,
\* a tie going to the even hundredth
DecRound2(x) ==
    LET m    == MagMul(x.mag, 100)
        p    == IF Len(m) < x.q THEN m \o Zeros(x.q - Len(m)) ELSE m
        high == MagTrim(SubSeq(p, x.q + 1, Len(p)))
        top  == p[x.q]
        rest == \E j \in 1..(x.q - 1) : p[j] # 0
        up   == \/ top > 500
                \/ top = 500 /\ rest
                \/ top = 500 /\ ~rest /\ high # <<>> /\ high[1] % 2 = 1
        cents == IF x.q = 0 THEN m
                 ELSE IF up THEN MagAdd(high, <<1>>) ELSE high
    IN  DecNorm(x.neg, MagMul(cents, 10), 1)

(***************************************************************************)
(* The state.                                                              *)
(*   initial_bankroll, stop_loss_consecutive : BettingEngine configuration *)
(*   recs, actuals    : the arguments of simulate_bankroll                 *)
(*   pos              : the position in recs of the loop "for rec in recs" *)
(*   pc               : "running" in the loop, "stopped" after the         *)
(*                      stop-loss break, "returned" after the return       *)
(*   bankroll, history, consecutive_losses, wager, profit, bet_won :       *)
(*                      the locals of simulate_bankroll                    *)
(***************************************************************************)
VARIABLES initial_bankroll, stop_loss_consecutive, recs, actuals, pos, pc,
          bankroll, history, consecutive_losses, wager, profit, bet_won

simVars == <<initial_bankroll, stop_loss_consecutive, recs, actuals, pos, pc,
             bankroll, history, consecutive_losses, wager, profit, bet_won>>

(***************************************************************************)
(*   cfg              : the thresholds of the BettingEngine configuration  *)
(*   df, columns      : the match table given to analyse (each row with    *)
(*                      its row of prob_df) and the odds columns among     *)
(*                      df.columns                                         *)
(*   has_open, has_close : whether the table has both opening and both     *)
(*                      closing odds columns                               *)
(*   row_pos, bet_on  : the position of "for idx in df.index" and of       *)
(*                      "for bet_on in (over25, under25)"                  *)
(*   apc              : "scan" in the loops, "returned" after the return   *)
(*   recommendations  : the local list of analyse, returned at the end     *)
(*   checks_run, exit_at : the admission checks the last candidate was     *)
(*                      evaluated against, in order, and the statement     *)
(*                      at which its iteration ended                       *)
(*   last_market_odds : the local market_odds of the last candidate, NaN   *)
(*                      when its iteration ended before assigning it       *)
(***************************************************************************)
VARIABLES cfg, df, columns, has_open, has_close, row_pos, bet_on, apc,
          recommendations, checks_run, exit_at, last_market_odds

anaVars == <<cfg, df, columns, has_open, has_close, row_pos, bet_on, apc,
             recommendations, checks_run, exit_at, last_market_odds>>

(***************************************************************************)
(*   pair_recs        : the argument recs of pair_doubles                  *)
(*   sorted_recs, doubles : the locals of pair_doubles                     *)
(*   dropped          : the entries popped from sorted_recs that went into *)
(*                      no double, in the order of the pops                *)
(*   ppc              : "idle" before the call, "called" at its entry,     *)
(*                      "pairing" in the while loop, "returned" after the  *)
(*                      return                                             *)
(***************************************************************************)
VARIABLES pair_recs, sorted_recs, doubles, dropped, ppc

pairVars == <<pair_recs, sorted_recs, doubles, dropped, ppc>>

(***************************************************************************)
(*   k_odds, k_probs  : the decimal_odds and the successive model_prob     *)
(*                      arguments of a series of calls of kelly_stake      *)
(*   k_stakes         : the values the calls made so far returned          *)
(***************************************************************************)
VARIABLES k_odds, k_probs, k_stakes

kellyVars == <<k_odds, k_probs, k_stakes>>

(***************************************************************************)
(*   is_fitted, feature_cols, home_model, away_model, meta_model,          *)
(*   calibrator       : the attributes of a QuantModel                     *)
(*   fit_completed    : whether a call of fit has run to its return        *)
(*   m_call, m_result : the last method called on the model and what came  *)
(*                      of the call                                        *)
(*   m_calls          : the number of calls made on the model              *)
(*   m_data           : the table passed to the last call                   *)
(*   trained_on       : for each sub-model the model holds, the call of    *)
(*                      fit that constructed it, and the table and the     *)
(*                      feature columns it was trained on                  *)
(*   prob_over25, prob_under25 : the columns of the frame the last call of *)
(*                      predict_proba returned, in thousandths             *)
(*   avg_xg           : the local of _poisson_baseline in the last call of *)
(*                      predict_proba, in hundredths                       *)
(***************************************************************************)
VARIABLES is_fitted, feature_cols, home_model, away_model, meta_model,
          calibrator, fit_completed, m_call, m_result, m_calls,
          m_data, trained_on, prob_over25, prob_under25, avg_xg

modelVars == <<is_fitted, feature_cols, home_model, away_model, meta_model,
               calibrator, fit_completed, m_call, m_result, m_calls,
               m_data, trained_on, prob_over25, prob_under25, avg_xg>>

(***************************************************************************)
(*   eval_df      : the table passed to evaluate: the total_xg of each     *)
(*                  row, in tenths, in the order of the rows               *)
(*   eval_columns : the columns of that table among those evaluate looks   *)
(*                  for by name                                            *)
(*   ts_splits    : the configured number of splits                        *)
(*   fold_idx     : the number of folds run                                *)
(*   folds        : for each fold run, its train_idx and test_idx, the     *)
(*                  rows each stage was fitted on, and the avg_xg of the   *)
(*                  two calls of _poisson_baseline                         *)
(*   epc          : "idle", "called", "folding", "returned" or "raised"    *)
(***************************************************************************)
VARIABLES eval_df, eval_columns, ts_splits, fold_idx, folds, epc

evalVars == <<eval_df, eval_columns, ts_splits, fold_idx, folds, epc>>

(***************************************************************************)
(*   home_xg, away_xg : one element of the arrays passed to                *)
(*                      predict_totals, in hundredths                      *)
(*   ou_line          : the configured line, in tenths                     *)
(*   poisson_max      : the configured largest count of the grid           *)
(*   prob_under       : the local prob_under at the end of the double loop *)
(*   prob_over        : the element of the array returned                  *)
(*   tpc              : "called" or "returned"                             *)
(***************************************************************************)
VARIABLES home_xg, away_xg, ou_line, poisson_max, prob_under, prob_over, tpc

totVars == <<home_xg, away_xg, ou_line, poisson_max, prob_under, prob_over,
             tpc>>

vars == <<simVars, anaVars, pairVars, kellyVars, modelVars, evalVars, totVars>>

\* what the steps of simulate_bankroll, of analyse and of pair_doubles leave
\* alone
besideSim == <<anaVars, pairVars, kellyVars, modelVars, evalVars, totVars>>

besideAna == <<simVars, pairVars, kellyVars, modelVars, evalVars, totVars>>

besidePair == <<simVars, kellyVars, modelVars, evalVars, totVars>>

\* the default of actuals.get(rec.match_index, None): no realised outcome
None == -1

(***************************************************************************)
(* Bounds and input sets of the bankroll simulation.                       *)
(***************************************************************************)
MaxBets == 3

MaxTail == 1

\* the configured stop-loss thresholds: break at once, after any loss, after
\* three losses in a row (the scenario below adds the default, 5)
StopLosses == {0, 1, 3}

\* match identifiers that recommendations and actuals refer to
Matches == {0, 1}

\* (recommended_stake, market_odds) of the bets fed to the simulation:
\* 3% at 2.00, the whole bankroll at 1.50, 150% of the bankroll at 3.00
StakeOdds == {<<300, 200>>, <<10000, 150>>, <<15000, 300>>}

BetPool ==
    { [match_index |-> m, bet_on |-> s,
       recommended_stake |-> so[1], market_odds |-> so[2]] :
          m \in Matches, s \in {"over25", "under25"}, so \in StakeOdds }

ListsUpTo(S, n) == UNION { [1..k -> S] : k \in 0..n }

\* every Series of realised over25 outcomes indexed by a subset of Matches
ActualsSet == UNION { [S -> {0, 1}] : S \in SUBSET Matches }

(***************************************************************************)
(* simulate_bankroll                                                       *)
(***************************************************************************)
\* a lookup whose default is 0 instead of None
ActualOverDefaultZero(a, rec) ==
    IF rec.match_index \in DOMAIN a THEN a[rec.match_index] ELSE 0

\* actuals.get(rec.match_index, None)
ActualOver(a, rec) ==
    IF rec.match_index \in DOMAIN a THEN a[rec.match_index] ELSE None

BetWon(rec, actual_over) ==
    \/ rec.bet_on = "over25" /\ actual_over = 1
    \/ rec.bet_on = "under25" /\ actual_over = 0

\* a stop-loss that trips one loss late
StopLossReachedLate(losses, threshold) == losses > threshold

StopLossReached(losses, threshold) == losses >= threshold

\* a wager sized on the initial bankroll instead of the running one
WagerOnInitial(b, rec) ==
    DecScale(DecOfInt(initial_bankroll), rec.recommended_stake * 100, 2)

\* wager = bankroll * rec.recommended_stake
Wager(b, rec) == DecScale(b, rec.recommended_stake * 100, 2)

\* a loss that costs the wager times the odds
ProfitLosesOdds(w, rec, won) ==
    IF won THEN DecScale(w, (rec.market_odds - 100) * 10, 1)
    ELSE DecNeg(DecScale(w, rec.market_odds * 10, 1))

\* a win that pays the odds as a flat amount, whatever the wager
ProfitFlatWin(w, rec, won) ==
    IF won THEN DecOfInt(rec.market_odds - 100) ELSE DecNeg(w)

\* profit = wager * (rec.market_odds - 1.0) if bet_won else -wager
Profit(w, rec, won) ==
    IF won THEN DecScale(w, (rec.market_odds - 100) * 10, 1) ELSE DecNeg(w)

\* a counter that a win does not reset
NextLossesNoReset(won, losses) == IF won THEN losses ELSE losses + 1

\* a counter with the two branches exchanged
NextLossesSwapped(won, losses) == IF won THEN losses + 1 ELSE 0

NextLosses(won, losses) == IF won THEN 0 ELSE losses + 1

LedgerEntry(rec, w, won, p, b) ==
    [match_index |-> rec.match_index, bet_on |-> rec.bet_on,
     odds |-> rec.market_odds, stake_pct |-> rec.recommended_stake,
     wager |-> DecRound2(w), won |-> won, profit |-> DecRound2(p),
     bankroll |-> DecRound2(b)]

\* a ledger that grows at the front
PrependLedger(h, e) == <<e>> \o h

AppendLedger(h, e) == Append(h, e)

\* the stop-loss check at the top of an iteration: break
StopLoss ==
    /\ pc = "running" /\ pos <= Len(recs)
    /\ StopLossReached(consecutive_losses, stop_loss_consecutive)
    /\ pc' = "stopped"
    /\ UNCHANGED <<initial_bankroll, stop_loss_consecutive, recs, actuals, pos,
                   bankroll, history, consecutive_losses, wager, profit, bet_won>>
    /\ UNCHANGED besideSim

\* actual_over is None: continue
SkipUnresolved ==
    /\ pc = "running" /\ pos <= Len(recs)
    /\ ~StopLossReached(consecutive_losses, stop_loss_consecutive)
    /\ ActualOver(actuals, recs[pos]) = None
    /\ pos' = pos + 1
    /\ UNCHANGED <<initial_bankroll, stop_loss_consecutive, recs, actuals, pc,
                   bankroll, history, consecutive_losses, wager, profit, bet_won>>
    /\ UNCHANGED besideSim

\* the rest of the loop body: settle the bet and append the ledger entry
Settle ==
    /\ pc = "running" /\ pos <= Len(recs)
    /\ ~StopLossReached(consecutive_losses, stop_loss_consecutive)
    /\ ActualOver(actuals, recs[pos]) # None
    /\ LET rec == recs[pos]
           won == BetWon(rec, ActualOver(actuals, rec))
           w   == Wager(bankroll, rec)
           p   == Profit(w, rec, won)
           b   == DecAdd(bankroll, p)
       IN  /\ bet_won' = won
           /\ wager' = w
           /\ profit' = p
           /\ bankroll' = b
           /\ consecutive_losses' = NextLosses(won, consecutive_losses)
           /\ history' = AppendLedger(history, LedgerEntry(rec, w, won, p, b))
    /\ pos' = pos + 1
    /\ UNCHANGED <<initial_bankroll, stop_loss_consecutive, recs, actuals, pc>>
    /\ UNCHANGED besideSim

\* return pd.DataFrame(history), after the break or at the end of recs
ReturnLedger ==
    /\ \/ pc = "stopped"
       \/ pc = "running" /\ pos > Len(recs)
    /\ pc' = "returned"
    /\ UNCHANGED <<initial_bankroll, stop_loss_consecutive, recs, actuals, pos,
                   bankroll, history, consecutive_losses, wager, profit, bet_won>>
    /\ UNCHANGED besideSim

(***************************************************************************)
(* analyse.  Units: probabilities, thresholds on probabilities, the        *)
(* expected-value threshold and fractional_kelly in hundredths; odds in    *)
(* hundredths; max_stake_pct and every rounded field of a recommendation   *)
(* in ten-thousandths.  An unrounded quotient is a pair <<num, den>>,      *)
(* den > 0.                                                                *)
(***************************************************************************)
\* np.nan in an odds cell, and the value of row.get(col, np.nan) for a
\* column the table does not have
NaN == -1

MaxRows == 2

\* the defaults of BettingEngine.__init__
DefaultConfig ==
    [fractional_kelly |-> 25, min_ev_threshold |-> 5,
     min_prob_threshold |-> 80, min_odds |-> 175, max_stake_pct |-> 300,
     disagreement_skip |-> 20,
     pairing_enabled |-> TRUE, prefer_cross_league |-> TRUE]

\* a configuration with a lower probability floor and a lower odds floor,
\* without the cross-league preference
LooseConfig ==
    [fractional_kelly |-> 25, min_ev_threshold |-> 5,
     min_prob_threshold |-> 55, min_odds |-> 150, max_stake_pct |-> 300,
     disagreement_skip |-> 20,
     pairing_enabled |-> TRUE, prefer_cross_league |-> FALSE]

\* a configuration whose probability floor is below one half
WideConfig ==
    [fractional_kelly |-> 25, min_ev_threshold |-> 5,
     min_prob_threshold |-> 45, min_odds |-> 150, max_stake_pct |-> 300,
     disagreement_skip |-> 20,
     pairing_enabled |-> TRUE, prefer_cross_league |-> TRUE]

Configs == {DefaultConfig, LooseConfig, WideConfig}

\* prob_over25 of a row of prob_df; prob_under25 is its complement
ProbsOver == {45, 55, 60, 70, 80}

\* <<opening odds, closing odds>> of one outcome of a row
OddsPairs ==
    {<<190, 175>>, <<200, NaN>>, <<NaN, NaN>>, <<200, 100>>, <<175, 140>>,
     <<240, 250>>}

RowPool ==
    { [steam_signal |-> st, prob_over25 |-> po, prob_under25 |-> 100 - po,
       over25_open_odds |-> ov[1], over25_close_odds |-> ov[2],
       under25_open_odds |-> un[1], under25_close_odds |-> un[2]] :
         st \in {-1, 0, 1}, po \in ProbsOver,
         ov \in OddsPairs, un \in OddsPairs }

\* the odds columns a table may have; any of them may be missing
OddsColumns ==
    {"over25_open_odds", "under25_open_odds",
     "over25_close_odds", "under25_close_odds"}

\* has_open and has_close of a table with the odds columns cols
HasOpen(cols) == \A c \in {"over25_open_odds", "under25_open_odds"} : c \in cols

HasClose(cols) ==
    \A c \in {"over25_close_odds", "under25_close_odds"} : c \in cols

\* the rows after the first of a table of several rows
TailRowPool ==
    { r \in RowPool :
        /\ r.steam_signal = 0
        /\ r.prob_over25 \in {45, 55}
        /\ <<r.over25_open_odds, r.over25_close_odds>>
              \in {<<200, NaN>>, <<240, 250>>}
        /\ <<r.under25_open_odds, r.under25_close_odds>> = <<240, 250>> }

\* the rows of `pool` in a table with the odds columns cols:
\* row.get(col, np.nan) of a column the table lacks is np.nan
RowsOf(cols, pool) ==
    { [c \in DOMAIN r |->
          IF c \in OddsColumns /\ c \notin cols THEN NaN ELSE r[c]] :
        r \in pool }

\* the tables of at most MaxRows rows with the odds columns cols
Tables(cols) ==
    {<<>>} \cup
    { <<r>> \o tail :
        r \in RowsOf(cols, RowPool),
        tail \in UNION { [1..k -> RowsOf(cols, TailRowPool)] :
                           k \in 0..(MaxRows - 1) } }

\* str(row.get("league", "")) of the row with index idx
LeagueOf(idx) == IF idx % 2 = 0 THEN "serie_a" ELSE "premier"

\* odds_map and prob_map
OpenCol(side) ==
    IF side = "over25" THEN "over25_open_odds" ELSE "under25_open_odds"

CloseCol(side) ==
    IF side = "over25" THEN "over25_close_odds" ELSE "under25_close_odds"

ProbCol(side) == IF side = "over25" THEN "prob_over25" ELSE "prob_under25"

Abs(x) == IF x < 0 THEN -x ELSE x

\* n / d rounded to the nearest integer, a tie going to the even one (d > 0)
RoundHalfEven(n, d) ==
    LET q == n \div d
        r == n - q * d
    IN  IF 2 * r < d THEN q
        ELSE IF 2 * r > d THEN q + 1
        ELSE IF q % 2 = 0 THEN q ELSE q + 1

\* round(x, 4) of a quotient, in ten-thousandths
Round4(x) == RoundHalfEven(x[1] * 10000, x[2])

\* implied_probability(decimal_odds), as a quotient
ImpliedProbability(decimal_odds) ==
    IF decimal_odds <= 100 THEN <<1, 1>> ELSE <<100, decimal_odds>>

\* expected_value(model_prob, decimal_odds), in ten-thousandths
ExpectedValue(model_prob, decimal_odds) ==
    model_prob * (decimal_odds - 100) - (100 - model_prob) * 100

\* a full Kelly stake that is not floored at 0
KellyStakeNoFloor(model_prob, decimal_odds) ==
    LET b == decimal_odds - 100
    IN  IF b <= 0 THEN <<0, 1>>
        ELSE <<b * model_prob - (100 - model_prob) * 100, b * 100>>

\* a full Kelly stake with the sign of the edge reversed
KellyStakeSignFlipped(model_prob, decimal_odds) ==
    LET b == decimal_odds - 100
        n == (100 - model_prob) * 100 - b * model_prob
    IN  IF b <= 0 THEN <<0, 1>>
        ELSE IF n > 0 THEN <<n, b * 100>> ELSE <<0, 1>>

\* kelly_stake(model_prob, decimal_odds), as a quotient
KellyStake(model_prob, decimal_odds) ==
    LET b == decimal_odds - 100
        n == b * model_prob - (100 - model_prob) * 100
    IN  IF b <= 0 THEN <<0, 1>>
        ELSE IF n > 0 THEN <<n, b * 100>> ELSE <<0, 1>>

\* a probability floor that is strict
CheckFiltroAStrict(model_prob) == model_prob > cfg.min_prob_threshold

\* _check_filtro_a
CheckFiltroA(model_prob) == model_prob >= cfg.min_prob_threshold

\* _check_filtro_b
CheckFiltroB(steam_signal, side) ==
    IF side = "over25" /\ steam_signal = -1 THEN FALSE
    ELSE IF side = "under25" /\ steam_signal = 1 THEN FALSE
    ELSE TRUE

\* _check_disagreement: abs(model_prob - implied_prob) <= disagreement_skip
CheckDisagreement(model_prob, implied_prob) ==
    Abs(model_prob * implied_prob[2] - 100 * implied_prob[1])
        <= cfg.disagreement_skip * implied_prob[2]

\* a closing-line value of the opposite sign
ClosingLineValueNegated(model_prob, closing_implied) ==
    <<100 * closing_implied[1] - model_prob * closing_implied[2],
      100 * closing_implied[2]>>

\* closing_line_value(model_prob, closing_implied), as a quotient
ClosingLineValue(model_prob, closing_implied) ==
    <<model_prob * closing_implied[2] - 100 * closing_implied[1],
      100 * closing_implied[2]>>

\* "Determine odds to use": the closing odds, else the opening odds, else none
MarketOdds(row, side) ==
    IF has_close /\ row[CloseCol(side)] # NaN THEN row[CloseCol(side)]
    ELSE IF has_open /\ row[OpenCol(side)] # NaN THEN row[OpenCol(side)]
    ELSE NaN

\* float(row.get(open_col, market_odds))
OpenOdds(row, side, market_odds) ==
    IF OpenCol(side) \in columns THEN row[OpenCol(side)] ELSE market_odds

\* the candidate's iteration with the odds floor tested before the filters
ExitAtOddsFirst(row, side) ==
    LET market_odds == MarketOdds(row, side)
        model_prob  == row[ProbCol(side)]
    IN  IF market_odds = NaN THEN "no_odds"
        ELSE IF market_odds <= 100 THEN "odds_le_1"
        ELSE IF market_odds < cfg.min_odds THEN "min_odds"
        ELSE IF \/ ~CheckFiltroA(model_prob)
                \/ ~CheckFiltroB(row.steam_signal, side) THEN "filtro"
        ELSE IF ~CheckDisagreement(model_prob, ImpliedProbability(market_odds))
             THEN "disagreement"
        ELSE IF ExpectedValue(model_prob, market_odds)
                  < cfg.min_ev_threshold * 100 THEN "ev"
        ELSE "admitted"

\* the statement at which the iteration of a candidate ends: one of the
\* six "continue" of the loop body, or the append at its end
ExitAt(row, side) ==
    LET market_odds == MarketOdds(row, side)
        model_prob  == row[ProbCol(side)]
    IN  IF market_odds = NaN THEN "no_odds"
        ELSE IF market_odds <= 100 THEN "odds_le_1"
        ELSE IF \/ ~CheckFiltroA(model_prob)
                \/ ~CheckFiltroB(row.steam_signal, side) THEN "filtro"
        ELSE IF market_odds < cfg.min_odds THEN "min_odds"
        ELSE IF ~CheckDisagreement(model_prob, ImpliedProbability(market_odds))
             THEN "disagreement"
        ELSE IF ExpectedValue(model_prob, market_odds)
                  < cfg.min_ev_threshold * 100 THEN "ev"
        ELSE "admitted"

\* the admission checks evaluated before the iteration ends at `exit`:
\* passes_a and passes_b are both computed before either is tested
ChecksRun(exit) ==
    CASE exit \in {"no_odds", "odds_le_1"} -> <<>>
      [] exit = "filtro" -> <<"prob_floor", "signal">>
      [] exit = "min_odds" -> <<"prob_floor", "signal", "odds_floor">>
      [] exit = "disagreement" ->
           <<"prob_floor", "signal", "odds_floor", "disagreement">>
      [] exit \in {"ev", "admitted"} ->
           <<"prob_floor", "signal", "odds_floor", "disagreement", "ev_floor">>

\* a stake without the cap of max_stake_pct
StakeUncapped(full_kelly) ==
    Round4(<<full_kelly[1] * cfg.fractional_kelly, full_kelly[2] * 100>>)

\* min(full_kelly * self.fractional_kelly, self.max_stake_pct), rounded
Stake4(full_kelly) ==
    LET scaled == <<full_kelly[1] * cfg.fractional_kelly, full_kelly[2] * 100>>
    IN  IF scaled[1] * 10000 <= cfg.max_stake_pct * scaled[2]
        THEN Round4(scaled) ELSE cfg.max_stake_pct

\* the BetRecommendation of an admitted candidate (home_team, away_team and
\* date are copied from the row and left out)
MakeRec(idx, row, side) ==
    LET model_prob  == row[ProbCol(side)]
        market_odds == MarketOdds(row, side)
        open_odds   == OpenOdds(row, side, market_odds)
        imp_close   == ImpliedProbability(market_odds)
        full_kelly  == KellyStake(model_prob, market_odds)
    IN  [match_index |-> idx, bet_on |-> side,
         model_prob |-> model_prob * 100,
         implied_prob_open |->
             IF open_odds = NaN THEN NaN
             ELSE Round4(ImpliedProbability(open_odds)),
         implied_prob_close |-> Round4(imp_close),
         edge |-> Round4(<<model_prob * imp_close[2] - 100 * imp_close[1],
                           100 * imp_close[2]>>),
         ev |-> Round4(<<ExpectedValue(model_prob, market_odds), 10000>>),
         kelly_fraction |-> Round4(full_kelly),
         recommended_stake |-> Stake4(full_kelly),
         market_odds |-> market_odds,
         clv |-> Round4(ClosingLineValue(model_prob, imp_close)),
         steam_signal |-> row.steam_signal,
         passes_filtro_a |-> CheckFiltroA(model_prob),
         passes_filtro_b |-> CheckFiltroB(row.steam_signal, side),
         league |-> LeagueOf(idx)]

\* a return of the list in the order of the appends, without the sort
KeepAppendOrder(list) == list

\* list.sort(key=lambda r: r.ev, reverse=True): stable, descending
RECURSIVE InsertByEv(_, _)
InsertByEv(sorted, r) ==
    IF sorted = <<>> THEN <<r>>
    ELSE IF Head(sorted).ev >= r.ev THEN <<Head(sorted)>> \o InsertByEv(Tail(sorted), r)
    ELSE <<r>> \o sorted

RECURSIVE SortByEvDesc(_)
SortByEvDesc(list) ==
    IF list = <<>> THEN <<>>
    ELSE InsertByEv(SortByEvDesc(SubSeq(list, 1, Len(list) - 1)), list[Len(list)])

\* the next (idx, bet_on) of the two nested loops
NextCandidate ==
    IF bet_on = "over25" THEN bet_on' = "under25" /\ row_pos' = row_pos
    ELSE bet_on' = "over25" /\ row_pos' = row_pos + 1

\* the loops are at a candidate
AtCandidate == apc = "scan" /\ row_pos <= Len(df)

\* an iteration that ends at a "continue"
Continue(exit) ==
    /\ checks_run' = ChecksRun(exit)
    /\ exit_at' = exit
    /\ last_market_odds' = MarketOdds(df[row_pos], bet_on)
    /\ NextCandidate
    /\ UNCHANGED <<cfg, df, columns, has_open, has_close, apc, recommendations>>
    /\ UNCHANGED besideAna

\* neither closing nor opening odds: continue
SkipNoOdds ==
    /\ AtCandidate
    /\ ExitAt(df[row_pos], bet_on) = "no_odds"
    /\ Continue("no_odds")

\* market_odds <= 1.0: continue
SkipOddsNotAboveOne ==
    /\ AtCandidate
    /\ ExitAt(df[row_pos], bet_on) = "odds_le_1"
    /\ Continue("odds_le_1")

\* not passes_a or not passes_b: continue
RejectFiltro ==
    /\ AtCandidate
    /\ ExitAt(df[row_pos], bet_on) = "filtro"
    /\ Continue("filtro")

\* market_odds < self.min_odds: continue
RejectMinOdds ==
    /\ AtCandidate
    /\ ExitAt(df[row_pos], bet_on) = "min_odds"
    /\ Continue("min_odds")

\* not self._check_disagreement(model_prob, imp_close): continue
RejectDisagreement ==
    /\ AtCandidate
    /\ ExitAt(df[row_pos], bet_on) = "disagreement"
    /\ Continue("disagreement")

\* ev < self.min_ev_threshold: continue
RejectEV ==
    /\ AtCandidate
    /\ ExitAt(df[row_pos], bet_on) = "ev"
    /\ Continue("ev")

\* an iteration that reaches recommendations.append(rec)
Admit ==
    /\ AtCandidate
    /\ ExitAt(df[row_pos], bet_on) = "admitted"
    /\ checks_run' = ChecksRun("admitted")
    /\ exit_at' = "admitted"
    /\ recommendations' =
           Append(recommendations, MakeRec(row_pos - 1, df[row_pos], bet_on))
    /\ last_market_odds' = MarketOdds(df[row_pos], bet_on)
    /\ NextCandidate
    /\ UNCHANGED <<cfg, df, columns, has_open, has_close, apc>>
    /\ UNCHANGED besideAna

\* recommendations.sort(...) and return, after the last row
SortAndReturn ==
    /\ apc = "scan" /\ row_pos > Len(df)
    /\ recommendations' = SortByEvDesc(recommendations)
    /\ apc' = "returned"
    /\ UNCHANGED <<cfg, df, columns, has_open, has_close, row_pos, bet_on,
                   checks_run, exit_at, last_market_odds>>
    /\ UNCHANGED besideAna

(***************************************************************************)
(* pair_doubles.  The legs keep the units of a recommendation: model_prob  *)
(* in ten-thousandths, market_odds in hundredths.  combined_prob is a      *)
(* quotient and combined_odds is in ten-thousandths until they are rounded.*)
(***************************************************************************)
RECURSIVE GCD(_, _)
GCD(a, b) == IF b = 0 THEN a ELSE GCD(b, a % b)

\* the quotient x in lowest terms
Reduce(x) ==
    LET g == GCD(Abs(x[1]), x[2])
    IN  <<x[1] \div g, x[2] \div g>>

\* sorted(recs, key=lambda r: r.model_prob, reverse=True): stable, descending
RECURSIVE InsertByProb(_, _)
InsertByProb(sorted, r) ==
    IF sorted = <<>> THEN <<r>>
    ELSE IF Head(sorted).model_prob >= r.model_prob
         THEN <<Head(sorted)>> \o InsertByProb(Tail(sorted), r)
    ELSE <<r>> \o sorted

RECURSIVE SortByProbDesc(_)
SortByProbDesc(list) ==
    IF list = <<>> THEN <<>>
    ELSE InsertByProb(SortByProbDesc(SubSeq(list, 1, Len(list) - 1)),
                      list[Len(list)])

\* a removal that leaves the list as it is
RemoveAtKeeps(list, i) == list

\* the list without its entry at position i
RemoveAt(list, i) == SubSeq(list, 1, i - 1) \o SubSeq(list, i + 1, Len(list))

\* the same scan from the start of rest
SwapIndexFromStart(best, rest) ==
    LET others == { i \in 1..Len(rest) : rest[i].league # best.league }
    IN  IF others = {} THEN 0
        ELSE CHOOSE i \in others : \A j \in others : i <= j

\* the position in rest, scanned from its end, of the first entry of a league
\* other than best's; 0 when the scan finds none
SwapIndex(best, rest) ==
    LET others == { i \in 1..Len(rest) : rest[i].league # best.league }
    IN  IF others = {} THEN 0
        ELSE CHOOSE i \in others : \A j \in others : j <= i

\* whether the cross-league branch replaces the popped worst
Swapped(best, worst, rest) ==
    /\ cfg.prefer_cross_league
    /\ best.league = worst.league
    /\ SwapIndex(best, rest) # 0

\* kelly_stake(combined_prob, combined_odds), as a quotient in lowest terms
KellyStakeOfDouble(combined_prob, combined_odds) ==
    LET b == combined_odds - 10000
        n == b * combined_prob[1]
               - (combined_prob[2] - combined_prob[1]) * 10000
    IN  IF b <= 0 THEN <<0, 1>>
        ELSE IF n > 0 THEN Reduce(<<n, b * combined_prob[2]>>) ELSE <<0, 1>>

\* the DoubleBet of two legs
MakeDouble(best, worst) ==
    LET combined_prob ==
            Reduce(<<best.model_prob * worst.model_prob, 100000000>>)
        combined_odds == best.market_odds * worst.market_odds
        full_kelly    == KellyStakeOfDouble(combined_prob, combined_odds)
    IN  [leg_1 |-> best, leg_2 |-> worst,
         combined_prob |-> Round4(combined_prob),
         combined_odds |-> RoundHalfEven(combined_odds, 100),
         recommended_stake |-> Stake4(full_kelly)]

\* main: doubles = strategy.pair_doubles(recommendations)
CallPairDoubles ==
    /\ apc = "returned" /\ ppc = "idle"
    /\ pair_recs' = recommendations
    /\ ppc' = "called"
    /\ UNCHANGED <<sorted_recs, doubles, dropped>>
    /\ UNCHANGED <<anaVars, besidePair>>

\* not self.pairing_enabled or len(recs) < 2: return []
PairNothing ==
    /\ ppc = "called"
    /\ ~cfg.pairing_enabled \/ Len(pair_recs) < 2
    /\ doubles' = <<>>
    /\ ppc' = "returned"
    /\ UNCHANGED <<pair_recs, sorted_recs, dropped>>
    /\ UNCHANGED <<anaVars, besidePair>>

\* sorted_recs = sorted(...); doubles = []
PairSort ==
    /\ ppc = "called"
    /\ cfg.pairing_enabled /\ Len(pair_recs) >= 2
    /\ sorted_recs' = SortByProbDesc(pair_recs)
    /\ doubles' = <<>>
    /\ ppc' = "pairing"
    /\ UNCHANGED <<pair_recs, dropped>>
    /\ UNCHANGED <<anaVars, besidePair>>

\* one iteration of "while len(sorted_recs) >= 2"
PairStep ==
    /\ ppc = "pairing" /\ Len(sorted_recs) >= 2
    /\ LET best  == sorted_recs[1]
           worst == sorted_recs[Len(sorted_recs)]
           rest  == SubSeq(sorted_recs, 2, Len(sorted_recs) - 1)
           i     == SwapIndex(best, rest)
       IN  IF Swapped(best, worst, rest)
           THEN /\ doubles' = Append(doubles, MakeDouble(best, rest[i]))
                /\ sorted_recs' = RemoveAt(rest, i)
                /\ dropped' = Append(dropped, worst)
           ELSE /\ doubles' = Append(doubles, MakeDouble(best, worst))
                /\ sorted_recs' = rest
                /\ dropped' = dropped
    /\ UNCHANGED <<pair_recs, ppc>>
    /\ UNCHANGED <<anaVars, besidePair>>

\* the loop ends with fewer than two entries left: return doubles
PairReturn ==
    /\ ppc = "pairing" /\ Len(sorted_recs) < 2
    /\ ppc' = "returned"
    /\ UNCHANGED <<pair_recs, sorted_recs, doubles, dropped>>
    /\ UNCHANGED <<anaVars, besidePair>>

\* pair_doubles is not running
PairIdle ==
    /\ pair_recs = <<>> /\ sorted_recs = <<>> /\ doubles = <<>>
    /\ dropped = <<>> /\ ppc = "idle"

\* no series of calls of kelly_stake is running
KellyIdle == k_odds = 200 /\ k_probs = <<>> /\ k_stakes = <<>>

\* no QuantModel is in use
\* the sub-models a QuantModel holds
SubModels == {"home_model", "away_model", "meta_model", "calibrator"}

\* no table: the argument of a call that takes none
NoData == [detected |-> <<>>, total_xg |-> None]

\* a sub-model attribute that no call of fit has assigned
NoFit == [call |-> 0, data |-> NoData, features |-> <<>>]

ModelIdle ==
    /\ is_fitted = FALSE /\ feature_cols = <<>>
    /\ home_model = "None" /\ away_model = "None"
    /\ meta_model = "None" /\ calibrator = "None"
    /\ fit_completed = FALSE
    /\ m_data = NoData
    /\ trained_on = [a \in SubModels |-> NoFit]
    /\ prob_over25 = None /\ prob_under25 = None /\ avg_xg = None
    /\ m_call = "none" /\ m_result = "none" /\ m_calls = 0

\* evaluate is not running
EvalIdle ==
    /\ eval_df = <<>> /\ eval_columns = {} /\ ts_splits = 5
    /\ fold_idx = 0 /\ folds = <<>> /\ epc = "idle"

\* predict_totals is not running
TotalsIdle ==
    /\ home_xg = 0 /\ away_xg = 0 /\ ou_line = 25 /\ poisson_max = 10
    /\ prob_under = None /\ prob_over = None /\ tpc = "idle"

\* analyse is not running: its table and its locals
AnaLocalsIdle ==
    /\ df = <<>> /\ columns = OddsColumns
    /\ has_open = TRUE /\ has_close = TRUE
    /\ row_pos = 1 /\ bet_on = "over25" /\ apc = "idle"
    /\ recommendations = <<>> /\ checks_run = <<>> /\ exit_at = "none"
    /\ last_market_odds = NaN

AnaIdle == cfg = DefaultConfig /\ AnaLocalsIdle

\* simulate_bankroll is not running
SimIdle ==
    /\ initial_bankroll = 1000 /\ stop_loss_consecutive = 5
    /\ recs = <<>> /\ actuals = <<>> /\ pos = 1 /\ pc = "idle"
    /\ bankroll = DecOfInt(1000) /\ history = <<>> /\ consecutive_losses = 0
    /\ wager = DecZero /\ profit = DecZero /\ bet_won = FALSE

AnaInit ==
    /\ cfg \in Configs
    /\ columns \in SUBSET OddsColumns
    /\ has_open = HasOpen(columns) /\ has_close = HasClose(columns)
    /\ df \in Tables(columns)
    /\ row_pos = 1 /\ bet_on = "over25" /\ apc = "scan"
    /\ recommendations = <<>> /\ checks_run = <<>> /\ exit_at = "none"
    /\ last_market_odds = NaN
    /\ SimIdle /\ PairIdle /\ KellyIdle /\ ModelIdle /\ EvalIdle
    /\ TotalsIdle

AnaNext ==
    \/ SkipNoOdds \/ SkipOddsNotAboveOne \/ RejectFiltro \/ RejectMinOdds
    \/ RejectDisagreement \/ RejectEV \/ Admit \/ SortAndReturn
    \/ CallPairDoubles \/ PairNothing \/ PairSort \/ PairStep \/ PairReturn

SpecAnalyse == AnaInit /\ [][AnaNext]_vars

(***************************************************************************)
(* kelly_stake, called on its own: a series of calls at the same odds.     *)
(***************************************************************************)
\* the probabilities (hundredths) and the odds (hundredths) of the calls
KellyProbs == {-10, 0, 10, 25, 40, 50, 55, 60, 75, 90, 100, 120}

KellyOdds == {50, 100, 101, 150, 200, 400}

besideKelly == <<simVars, anaVars, pairVars, modelVars, evalVars, totVars>>

\* one call: kelly_stake(model_prob, decimal_odds)
CallKellyStake ==
    /\ Len(k_stakes) < Len(k_probs)
    /\ k_stakes' =
           Append(k_stakes, KellyStake(k_probs[Len(k_stakes) + 1], k_odds))
    /\ UNCHANGED <<k_odds, k_probs>>
    /\ UNCHANGED besideKelly

KellyInit ==
    /\ k_odds \in KellyOdds
    /\ k_probs \in [1..2 -> KellyProbs]
    /\ k_stakes = <<>>
    /\ SimIdle /\ AnaIdle /\ PairIdle /\ ModelIdle /\ EvalIdle
    /\ TotalsIdle

KellyNext == CallKellyStake

SpecKelly == KellyInit /\ [][KellyNext]_vars

(***************************************************************************)
(* pair_doubles, called on its own on any list of admitted bets.           *)
(***************************************************************************)
MaxRecs == 5

\* the pairing settings, with the default staking settings
PairConfigs ==
    { [DefaultConfig EXCEPT !.pairing_enabled = e, !.prefer_cross_league = x] :
        e \in BOOLEAN, x \in BOOLEAN }

\* league and model_prob (ten-thousandths) of an admitted bet
PairLeagues == {"serie_a", "premier"}

PairProbs == {5500, 8000}

\* the lists of at most MaxRecs admitted bets, one bet per match, at odds 2.00
PairLists ==
    UNION { { [i \in 1..n |->
                 [match_index |-> i - 1, bet_on |-> "over25",
                  league |-> f[i][1], model_prob |-> f[i][2],
                  market_odds |-> 200]] :
              f \in [1..n -> PairLeagues \X PairProbs] } : n \in 0..MaxRecs }

PairInit ==
    /\ cfg \in PairConfigs
    /\ pair_recs \in PairLists
    /\ sorted_recs = <<>> /\ doubles = <<>> /\ dropped = <<>>
    /\ ppc = "called"
    /\ AnaLocalsIdle /\ SimIdle /\ KellyIdle /\ ModelIdle /\ EvalIdle
    /\ TotalsIdle

PairNext == PairNothing \/ PairSort \/ PairStep \/ PairReturn

SpecPair == PairInit /\ [][PairNext]_vars

(***************************************************************************)
(* QuantModel: the methods called on one model, in any order.  A model     *)
(* attribute is "None", "unfitted" (constructed, its fit not completed)    *)
(* or "fitted".  What the libraries compute from the data is left out:     *)
(* a call either goes through or raises where the data can make it raise.  *)
(***************************************************************************)
MaxCalls == 4

\* feature lists _resolve_features can detect in a table
FeatureLists == {<<"home_xg_ema">>, <<"home_xg_ema", "away_xg_ema">>}

\* the mean of the total_xg column of a table, in hundredths; None for a
\* table without that column
TotalXgMeans == {None, 260, 300}

\* the tables passed to the model: the feature columns auto-detection finds
\* in them, and the mean of their total_xg column
Datasets ==
    { [detected |-> f, total_xg |-> t] : f \in FeatureLists, t \in TotalXgMeans }

\* the statements of fit that raise on unsuitable data: the column look-ups,
\* the four library fits, and the building of the meta-learner's inputs
FitStages ==
    {"columns", "home_fit", "away_fit", "meta_features", "meta_fit",
     "calibrator_fit"}

besideModel == <<simVars, anaVars, pairVars, kellyVars, evalVars, totVars>>

\* _resolve_features(df): the cached list if there is one, else the detected
ResolveFeatures(detected) ==
    IF feature_cols # <<>> THEN feature_cols ELSE detected

\* df[features]: every column of the list is a column of the table
HasColumns(data, features) ==
    \A i \in 1..Len(features) :
        \E j \in 1..Len(data.detected) : data.detected[j] = features[i]

\* avg_xg of _poisson_baseline(df), in hundredths
AvgXg(data) == IF data.total_xg # None THEN data.total_xg \div 2 ELSE 130

\* what the calibrator's predict returns, in thousandths
CalibratorOutputs == {0, 5, 10, 500, 990, 995, 1000}

\* no clipping
ClipNone(x, lo, hi) == x

\* np.clip(x, lo, hi)
Clip(x, lo, hi) == IF x < lo THEN lo ELSE IF x > hi THEN hi ELSE x

\* a readiness test on the base model instead of the flag
NotReadyByModel(fitted) == home_model = "None"

\* "if not self._is_fitted" of predict_proba and get_feature_importance
NotReady(fitted) == ~fitted

\* an evaluate that tests the flag first
EvaluateOutcomeGuarded(fitted, data_ok) ==
    IF ~fitted THEN "RuntimeError"
    ELSE IF data_ok THEN "metrics" ELSE "data_error"

\* what comes of evaluate: it never reads _is_fitted
EvaluateOutcome(fitted, data_ok) ==
    IF data_ok THEN "metrics" ELSE "data_error"

\* a call is made on the model
Called(name, result) ==
    /\ m_calls < MaxCalls
    /\ m_calls' = m_calls + 1
    /\ m_call' = name
    /\ m_result' = result

\* the call returns no frame of probabilities
NoFrame == prob_over25' = None /\ prob_under25' = None /\ avg_xg' = None

\* a sub-model this call of fit has constructed and trained, and one it has
\* constructed only
Trained(data, features) ==
    [call |-> m_calls + 1, data |-> data, features |-> features]

Constructed == [call |-> m_calls + 1, data |-> NoData, features |-> <<>>]

\* what a call of fit that raises at `stage` has done to the attribute a:
\* "kept" (not yet assigned), "unfitted" (assigned a new object whose fit did
\* not complete) or "fitted"
AfterRaise(a, stage) ==
    CASE a = "home_model" ->
           CASE stage = "columns" -> "kept"
             [] stage = "home_fit" -> "unfitted"
             [] OTHER -> "fitted"
      [] a = "away_model" ->
           CASE stage = "columns" -> "kept"
             [] stage \in {"home_fit", "away_fit"} -> "unfitted"
             [] OTHER -> "fitted"
      [] a = "meta_model" ->
           CASE stage = "meta_fit" -> "unfitted"
             [] stage = "calibrator_fit" -> "fitted"
             [] OTHER -> "kept"
      [] a = "calibrator" ->
           IF stage = "calibrator_fit" THEN "unfitted" ELSE "kept"

\* the attribute after such a call, and what it was trained on
AttrAfterRaise(a, stage, old) ==
    IF AfterRaise(a, stage) = "kept" THEN old ELSE AfterRaise(a, stage)

TrainedOnAfterRaise(a, stage, data, features) ==
    CASE AfterRaise(a, stage) = "kept" -> trained_on[a]
      [] AfterRaise(a, stage) = "unfitted" -> Constructed
      [] OTHER -> Trained(data, features)

\* fit(df) runs to "return self"
Fit ==
    /\ \E data \in Datasets :
         LET features == ResolveFeatures(data.detected)
         IN  /\ HasColumns(data, features)
             /\ feature_cols' = features
             /\ trained_on' = [a \in SubModels |-> Trained(data, features)]
             /\ m_data' = data
    /\ home_model' = "fitted" /\ away_model' = "fitted"
    /\ meta_model' = "fitted" /\ calibrator' = "fitted"
    /\ is_fitted' = TRUE
    /\ fit_completed' = TRUE
    /\ Called("fit", "self")
    /\ NoFrame
    /\ UNCHANGED besideModel

\* fit(df) raises at one of its stages, after the assignments before it
FitRaises ==
    /\ \E data \in Datasets, stage \in FitStages :
         LET features == ResolveFeatures(data.detected)
         IN  /\ stage # "columns" => HasColumns(data, features)
             /\ feature_cols' = features
             /\ home_model' = AttrAfterRaise("home_model", stage, home_model)
             /\ away_model' = AttrAfterRaise("away_model", stage, away_model)
             /\ meta_model' = AttrAfterRaise("meta_model", stage, meta_model)
             /\ calibrator' = AttrAfterRaise("calibrator", stage, calibrator)
             /\ trained_on' =
                  [a \in SubModels |->
                     TrainedOnAfterRaise(a, stage, data, features)]
             /\ m_data' = data
    /\ UNCHANGED <<is_fitted, fit_completed>>
    /\ Called("fit", "data_error")
    /\ NoFrame
    /\ UNCHANGED besideModel

\* predict_proba(df) on a model that is not ready
PredictProbaRaises ==
    /\ NotReady(is_fitted)
    /\ \E data \in Datasets : m_data' = data
    /\ Called("predict_proba", "RuntimeError")
    /\ NoFrame
    /\ UNCHANGED <<is_fitted, feature_cols, home_model, away_model,
                   meta_model, calibrator, fit_completed, trained_on>>
    /\ UNCHANGED besideModel

\* predict_proba(df) past the readiness test: the probabilities, unless a
\* model left unfitted by a later fit, or the data, makes a library raise
PredictProba ==
    /\ ~NotReady(is_fitted)
    /\ \E data \in Datasets, data_ok \in BOOLEAN,
          calibrated \in CalibratorOutputs :
         LET ok == /\ data_ok /\ HasColumns(data, feature_cols)
                   /\ home_model = "fitted" /\ away_model = "fitted"
                   /\ meta_model = "fitted" /\ calibrator = "fitted"
         IN  /\ m_data' = data
             /\ Called("predict_proba",
                       IF ok THEN "probabilities" ELSE "data_error")
             /\ IF ok
                THEN /\ prob_over25' = Clip(calibrated, 10, 990)
                     /\ prob_under25' = 1000 - prob_over25'
                     /\ avg_xg' = AvgXg(data)
                ELSE NoFrame
    /\ UNCHANGED <<is_fitted, feature_cols, home_model, away_model,
                   meta_model, calibrator, fit_completed, trained_on>>
    /\ UNCHANGED besideModel

\* get_feature_importance() on a model that is not ready
GetFeatureImportanceRaises ==
    /\ NotReady(is_fitted)
    /\ Called("get_feature_importance", "RuntimeError")
    /\ m_data' = NoData
    /\ NoFrame
    /\ UNCHANGED <<is_fitted, feature_cols, home_model, away_model,
                   meta_model, calibrator, fit_completed, trained_on>>
    /\ UNCHANGED besideModel

\* get_feature_importance() past the readiness test
GetFeatureImportance ==
    /\ ~NotReady(is_fitted)
    /\ Called("get_feature_importance",
              IF home_model = "fitted" /\ away_model = "fitted"
              THEN "importances" ELSE "data_error")
    /\ m_data' = NoData
    /\ NoFrame
    /\ UNCHANGED <<is_fitted, feature_cols, home_model, away_model,
                   meta_model, calibrator, fit_completed, trained_on>>
    /\ UNCHANGED besideModel

\* an evaluate that stores the features it resolved, as fit does
EvaluateStoresFeatures(features) ==
    /\ feature_cols' = features
    /\ UNCHANGED <<is_fitted, home_model, away_model, meta_model, calibrator,
                   fit_completed, trained_on>>

\* what evaluate assigns on the model: nothing, its features and its
\* sub-models are locals
EvaluateAssigns(features) ==
    UNCHANGED <<is_fitted, feature_cols, home_model, away_model, meta_model,
                calibrator, fit_completed, trained_on>>

\* evaluate(df): cross-validation of models local to the call
Evaluate ==
    /\ \E data \in Datasets, data_ok \in BOOLEAN :
         LET features == ResolveFeatures(data.detected)
         IN  /\ data_ok => HasColumns(data, features)
             /\ m_data' = data
             /\ Called("evaluate", EvaluateOutcome(is_fitted, data_ok))
             /\ EvaluateAssigns(features)
    /\ NoFrame
    /\ UNCHANGED besideModel

ModelInit ==
    ModelIdle /\ SimIdle /\ AnaIdle /\ PairIdle /\ KellyIdle /\ EvalIdle
    /\ TotalsIdle

ModelNext ==
    \/ Fit \/ FitRaises \/ PredictProbaRaises \/ PredictProba
    \/ GetFeatureImportanceRaises \/ GetFeatureImportance \/ Evaluate

SpecModel == ModelInit /\ [][ModelNext]_vars

(***************************************************************************)
(* evaluate: the folds of the time-series cross-validation of one table.   *)
(* Rows are numbered from 1 in the order of the table.                     *)
(***************************************************************************)
MaxEvalRows == 5

\* total_xg of a row, in tenths
TotalXgValues == {20, 30}

\* the columns evaluate looks for by name before it uses them
EvalColumns == {"total_xg", "market_momentum_over", "steam_signal"}

\* the configured numbers of splits (TimeSeriesSplit takes 2 or more)
SplitCounts == {2, 3}

besideEval == <<simVars, anaVars, pairVars, kellyVars, modelVars, totVars>>

\* the rows a to b, in order
Range(a, b) == [i \in 1..(b - a + 1) |-> a + i - 1]

\* TimeSeriesSplit(n_splits).split(X) on n_samples rows: the size of every
\* test block and the number of rows before the k-th one
TestSize(n_samples, n_splits) == n_samples \div (n_splits + 1)

TestStart(n_samples, n_splits, k) ==
    n_samples - (n_splits - k + 1) * TestSize(n_samples, n_splits)

\* test_idx of the k-th fold
TestIdx(n_samples, n_splits, k) ==
    Range(TestStart(n_samples, n_splits, k) + 1,
          TestStart(n_samples, n_splits, k) + TestSize(n_samples, n_splits))

\* a split that trains on every row outside the test block
TrainIdxAllOthers(n_samples, n_splits, k) ==
    Range(1, TestStart(n_samples, n_splits, k))
      \o Range(TestStart(n_samples, n_splits, k)
                 + TestSize(n_samples, n_splits) + 1, n_samples)

\* train_idx of the k-th fold
TrainIdx(n_samples, n_splits, k) ==
    Range(1, TestStart(n_samples, n_splits, k))

\* the sum of total_xg over the rows idx of the table
RECURSIVE SumTotalXg(_)
SumTotalXg(idx) ==
    IF idx = <<>> THEN 0 ELSE eval_df[Head(idx)] + SumTotalXg(Tail(idx))

\* avg_xg of _poisson_baseline(df.iloc[idx]), a quotient
PoissonBaseline(idx) ==
    IF "total_xg" \in eval_columns
    THEN Reduce(<<SumTotalXg(idx), 20 * Len(idx)>>)
    ELSE <<13, 10>>

\* one iteration of the loop over the folds
EvalFold ==
    /\ epc \in {"called", "folding"}
    /\ fold_idx < ts_splits
    /\ ts_splits + 1 <= Len(eval_df)
    /\ "market_momentum_over" \in eval_columns
         => "steam_signal" \in eval_columns
    /\ LET train_idx == TrainIdx(Len(eval_df), ts_splits, fold_idx + 1)
           test_idx  == TestIdx(Len(eval_df), ts_splits, fold_idx + 1)
       IN  folds' = Append(folds,
                      [train_idx |-> train_idx, test_idx |-> test_idx,
                       hm |-> train_idx, am |-> train_idx,
                       mm |-> train_idx, iso |-> train_idx,
                       tr_avg_xg |-> PoissonBaseline(train_idx),
                       te_avg_xg |-> PoissonBaseline(test_idx)])
    /\ fold_idx' = fold_idx + 1
    /\ epc' = "folding"
    /\ UNCHANGED <<eval_df, eval_columns, ts_splits>>
    /\ UNCHANGED besideEval

\* the split raises: more folds than rows
EvalSplitRaises ==
    /\ epc = "called"
    /\ ts_splits + 1 > Len(eval_df)
    /\ epc' = "raised"
    /\ UNCHANGED <<eval_df, eval_columns, ts_splits, fold_idx, folds>>
    /\ UNCHANGED besideEval

\* an iteration raises: a column is missing, or a library rejects the
\* fold's data
EvalFoldRaises ==
    /\ epc \in {"called", "folding"}
    /\ fold_idx < ts_splits
    /\ ts_splits + 1 <= Len(eval_df)
    /\ epc' = "raised"
    /\ UNCHANGED <<eval_df, eval_columns, ts_splits, fold_idx, folds>>
    /\ UNCHANGED besideEval

\* the metrics are averaged and returned
EvalReturn ==
    /\ epc = "folding"
    /\ fold_idx = ts_splits
    /\ epc' = "returned"
    /\ UNCHANGED <<eval_df, eval_columns, ts_splits, fold_idx, folds>>
    /\ UNCHANGED besideEval

EvalInit ==
    /\ eval_df \in UNION { [1..n -> TotalXgValues] : n \in 0..MaxEvalRows }
    /\ eval_columns \in SUBSET EvalColumns
    /\ ts_splits \in SplitCounts
    /\ fold_idx = 0 /\ folds = <<>> /\ epc = "called"
    /\ SimIdle /\ AnaIdle /\ PairIdle /\ KellyIdle /\ ModelIdle /\ TotalsIdle

EvalNext == EvalFold \/ EvalSplitRaises \/ EvalFoldRaises \/ EvalReturn

SpecEvaluate == EvalInit /\ [][EvalNext]_vars

(***************************************************************************)
(* predict_totals on one match.  Probability masses are in ten-thousandths *)
(* and rounded down, their products and prob_under, prob_over in units of  *)
(* 1e-8.                                                                   *)
(***************************************************************************)
MaxGoals == 3

\* predicted expected goals, in hundredths
XgValues == {-50, 0, 1, 50, 130, 250}

\* lines, in tenths
Lines == {-10, 0, 5, 20, 25, 70}

besideTotals == <<simVars, anaVars, pairVars, kellyVars, modelVars, evalVars>>

\* max(x, 0.01)
FloorXg(x) == IF x > 1 THEN x ELSE 1

\* exp(-lam), in ten-thousandths
ExpNeg(lam) ==
    CASE lam = 1 -> 9900
      [] lam = 50 -> 6065
      [] lam = 130 -> 2725
      [] lam = 250 -> 820

\* poisson.pmf(k, lam)
RECURSIVE PoissonPmf(_, _)
PoissonPmf(k, lam) ==
    IF k = 0 THEN ExpNeg(lam)
    ELSE (PoissonPmf(k - 1, lam) * lam) \div (100 * k)

\* poisson.pmf(np.arange(max_g + 1), lam)
PmfVector(max_g, lam) == [k \in 0..max_g |-> PoissonPmf(k, lam)]

\* a grid condition that leaves out the pairs on the line
OnOrUnderLineStrict(i, j, line) == (i + j) * 10 < line

\* (i + j) <= line
OnOrUnderLine(i, j, line) == (i + j) * 10 <= line

\* the loop over j, from j on, for one i
RECURSIVE InnerLoop(_, _, _, _, _, _)
InnerLoop(p_h, p_a, i, j, max_g, line) ==
    IF j > max_g THEN 0
    ELSE (IF OnOrUnderLine(i, j, line) THEN p_h[i] * p_a[j] ELSE 0)
           + InnerLoop(p_h, p_a, i, j + 1, max_g, line)

\* the loop over i, from i on
RECURSIVE OuterLoop(_, _, _, _, _)
OuterLoop(p_h, p_a, i, max_g, line) ==
    IF i > max_g THEN 0
    ELSE InnerLoop(p_h, p_a, i, 0, max_g, line)
           + OuterLoop(p_h, p_a, i + 1, max_g, line)

\* predict_totals(home_xg, away_xg) for one match
CallPredictTotals ==
    /\ tpc = "called"
    /\ LET lam_h == FloorXg(home_xg)
           lam_a == FloorXg(away_xg)
           p_h   == PmfVector(poisson_max, lam_h)
           p_a   == PmfVector(poisson_max, lam_a)
           under == OuterLoop(p_h, p_a, 0, poisson_max, ou_line)
       IN  /\ prob_under' = under
           /\ prob_over' = 100000000 - under
    /\ tpc' = "returned"
    /\ UNCHANGED <<home_xg, away_xg, ou_line, poisson_max>>
    /\ UNCHANGED besideTotals

TotalsInit ==
    /\ home_xg \in XgValues /\ away_xg \in XgValues
    /\ ou_line \in Lines
    /\ poisson_max \in 0..MaxGoals
    /\ prob_under = None /\ prob_over = None /\ tpc = "called"
    /\ SimIdle /\ AnaIdle /\ PairIdle /\ KellyIdle /\ ModelIdle /\ EvalIdle

TotalsNext == CallPredictTotals

SpecTotals == TotalsInit /\ [][TotalsNext]_vars

\* the bets of `pool` that lose against the outcomes a
Losing(a, pool) ==
    { r \in pool : ActualOver(a, r) # None /\ ~BetWon(r, ActualOver(a, r)) }

\* the end-to-end scenario: five losing bets of 3% each, then any further bets
ScenarioLists(a) ==
    { five \o tail :
        five \in [1..5 -> Losing(a, {r \in BetPool : r.recommended_stake = 300})],
        tail \in ListsUpTo(BetPool, MaxTail) }

SimInit ==
    /\ actuals \in ActualsSet
    /\ \/ /\ initial_bankroll = 1000
          /\ stop_loss_consecutive \in StopLosses
          /\ recs \in ListsUpTo(BetPool, MaxBets)
       \/ /\ initial_bankroll = 1000
          /\ stop_loss_consecutive = 5
          /\ recs \in ScenarioLists(actuals)
    /\ pos = 1
    /\ pc = "running"
    /\ bankroll = DecOfInt(initial_bankroll)
    /\ history = <<>>
    /\ consecutive_losses = 0
    \* wager, profit and bet_won are unbound until the first settlement assigns
    \* them, and nothing reads them before
    /\ wager = DecZero /\ profit = DecZero /\ bet_won = FALSE
    /\ AnaIdle /\ PairIdle /\ KellyIdle /\ ModelIdle /\ EvalIdle
    /\ TotalsIdle

Init == SimInit

Next == StopLoss \/ SkipUnresolved \/ Settle \/ ReturnLedger

Spec == Init /\ [][Next]_vars


(***************************************************************************)
(* Claims about simulate_bankroll.                                         *)
(***************************************************************************)
\* the bet has a realised outcome in actuals
Resolved(r) == r.match_index \in DOMAIN actuals

\* the realised outcome matches the side of the bet
Wins(r) ==
    /\ Resolved(r)
    /\ \/ r.bet_on = "over25" /\ actuals[r.match_index] = 1
       \/ r.bet_on = "under25" /\ actuals[r.match_index] = 0

\* this step settles the bet recs[pos]
Settles == Len(history') = Len(history) + 1

\* what a ledger entry says of the bet it settles
LedgerKey(e) ==
    [match_index |-> e.match_index, bet_on |-> e.bet_on,
     recommended_stake |-> e.stake_pct, market_odds |-> e.odds]

LedgerKeys(h) == [j \in 1..Len(h) |-> LedgerKey(h[j])]

\* C1: once the consecutive-loss counter has reached the stop-loss threshold,
\* no step settles a bet or moves on in the list: the bankroll, the counter,
\* the ledger and the position never change again, and the loop is left.
C1_StopLossHalts ==
    [][consecutive_losses >= stop_loss_consecutive
         => /\ UNCHANGED <<bankroll, consecutive_losses, history, pos>>
            /\ pc' \in {"stopped", "returned"}]_vars

\* C1 witness: the simulation has returned after the stop-loss, leaving
\* unsettled a later bet that would have won and one with no outcome
C1_Witness ==
    /\ pc = "returned" /\ stop_loss_consecutive > 0
    /\ consecutive_losses >= stop_loss_consecutive
    /\ \E j \in pos..Len(recs) : Wins(recs[j])
    /\ \E j \in pos..Len(recs) : ~Resolved(recs[j])

\* C2: a step that settles a winning bet leaves the counter at 0, a step that
\* settles a losing bet leaves it exactly one above its value before.
C2_CounterAfterSettlement ==
    [][Settles
         => IF Wins(recs[pos]) THEN consecutive_losses' = 0
            ELSE consecutive_losses' = consecutive_losses + 1]_vars

\* C2 witness: a win has just reset a counter that a loss had raised
C2_Witness ==
    /\ Len(history) >= 2
    /\ ~history[Len(history) - 1].won /\ history[Len(history)].won
    /\ consecutive_losses = 0

\* C3: the wager of every settlement is recommended_stake times the bankroll
\* before that settlement, the profit is wager * (odds - 1) for a win and
\* -wager for a loss, and the bankroll after it is the bankroll before plus
\* the profit.
C3_WagerOnRunningBankroll ==
    [][Settles
         => LET r == recs[pos]
                w == DecScale(bankroll, r.recommended_stake * 100, 2)
            IN  /\ wager' = w
                /\ profit' = IF Wins(r)
                               THEN DecScale(w, (r.market_odds - 100) * 10, 1)
                               ELSE DecNeg(w)
                /\ bankroll' = DecAdd(bankroll, profit')]_vars

\* C3 witness: a second settlement whose wager differs from the same stake
\* taken on the initial bankroll
C3_Witness ==
    /\ Len(history) >= 2 /\ pos > 1
    /\ wager # DecScale(DecOfInt(initial_bankroll),
                        recs[pos - 1].recommended_stake * 100, 2)
    /\ DecSign(wager) > 0

\* C4: in the loop, below the stop-loss, a bet whose match has no entry in
\* actuals changes neither counter nor bankroll nor ledger, and the loop goes
\* on with the next bet.
C4_UnresolvedSkipped ==
    [][(/\ pc = "running" /\ pos <= Len(recs)
        /\ consecutive_losses < stop_loss_consecutive
        /\ recs[pos].match_index \notin DOMAIN actuals)
         => /\ UNCHANGED <<consecutive_losses, bankroll, history>>
            /\ pos' = pos + 1 /\ pc' = "running"]_vars

\* C4 witness: a bet was skipped after a loss and the bet after it was settled
C4_Witness ==
    /\ pos = 4 /\ Len(history) = 2
    /\ Resolved(recs[1]) /\ ~Resolved(recs[2]) /\ Resolved(recs[3])
    /\ ~history[1].won

\* C5: the ledger is, in order, exactly the resolved bets among the bets
\* already passed, one entry each: an order-preserving subsequence of the
\* input list, no longer than it.
C5_LedgerIsSubsequence ==
    /\ LedgerKeys(history)
         = SelectSeq(SubSeq(recs, 1, pos - 1), LAMBDA r : Resolved(r))
    /\ Len(history) <= Len(recs)
    /\ pos <= Len(recs) + 1

\* C5 witness: three bets passed, the middle one skipped, the two settled
\* ones different
C5_Witness ==
    /\ pc = "returned" /\ Len(recs) = 3 /\ Len(history) = 2
    /\ LedgerKey(history[1]) # LedgerKey(history[2])
    /\ ~Resolved(recs[2])

\* the end-to-end scenario: bankroll 1000, stop-loss 5, a list that begins
\* with five losing bets of 3% each
Scenario ==
    /\ initial_bankroll = 1000 /\ stop_loss_consecutive = 5
    /\ Len(recs) >= 5
    /\ \A j \in 1..5 : /\ recs[j].recommended_stake = 300
                       /\ Resolved(recs[j]) /\ ~Wins(recs[j])

\* 1000 * 0.97^5 = 858.7340257
ScenarioFloor ==
    DecScale(DecScale(DecScale(DecScale(DecScale(
        DecOfInt(1000), 970, 1), 970, 1), 970, 1), 970, 1), 970, 1)

\* the bankroll of the last row of the returned ledger
FinalBankroll == history[Len(history)].bankroll

\* C6 as stated: in the scenario the ledger has exactly 5 entries and the
\* final bankroll is strictly less than 1000 and strictly greater than
\* 1000 * 0.97^5.
C6_Original ==
    (Scenario /\ pc = "returned")
      => /\ Len(history) = 5
         /\ DecLess(FinalBankroll, DecOfInt(1000))
         /\ DecLess(ScenarioFloor, FinalBankroll)

\* C6 as amended: in the scenario the ledger has exactly 5 entries, whatever
\* bets follow, and the final bankroll it records is 858.73: 1000 * 0.97^5
\* rounded to the cent, strictly less than 1000 and not greater than
\* 1000 * 0.97^5.
C6_ScenarioHaltsAtFloor ==
    (Scenario /\ pc = "returned")
      => /\ Len(history) = 5
         /\ FinalBankroll = DecRound2(ScenarioFloor)
         /\ FinalBankroll = DecScale(DecOfInt(85873), 10, 1)
         /\ DecLess(FinalBankroll, DecOfInt(1000))
         /\ DecLeq(FinalBankroll, ScenarioFloor)

\* C6 witness: the scenario has returned with a resolved bet left after the
\* five losses
C6_Witness ==
    /\ Scenario /\ pc = "returned" /\ Len(recs) > 5 /\ Resolved(recs[6])

\* C7 as stated: the consecutive-loss counter never becomes smaller.
C7_Original == [][consecutive_losses' >= consecutive_losses]_vars

\* C7 as amended: the counter never becomes smaller except that the
\* settlement of a winning bet sets it to 0.
C7_CounterDropsOnlyOnWin ==
    [][\/ consecutive_losses' >= consecutive_losses
       \/ /\ Settles /\ Wins(recs[pos]) /\ consecutive_losses' = 0]_vars

\* C7 witness: a win has reset a counter that had reached 2
C7_Witness ==
    /\ Len(history) = 3
    /\ ~history[1].won /\ ~history[2].won /\ history[3].won
    /\ consecutive_losses = 0

\* C8: with an initial bankroll >= 0 and every bet of the list staking a
\* fraction in [0, 1] at odds > 1 the bankroll is never negative, and a
\* negative bankroll comes only after the settlement of a stake above 1.
C8_BankrollNonNegative ==
    /\ (/\ initial_bankroll >= 0
        /\ \A j \in 1..Len(recs) :
             /\ recs[j].recommended_stake \in 0..10000
             /\ recs[j].market_odds > 100)
         => DecSign(bankroll) >= 0
    /\ DecSign(bankroll) < 0
         => \E j \in 1..(pos - 1) :
              Resolved(recs[j]) /\ recs[j].recommended_stake > 10000

\* C8 witness: every stake of the list is in [0, 1] and a whole bankroll
\* has been staked and lost
C8_Witness ==
    /\ Len(history) >= 2
    /\ \A j \in 1..Len(recs) : recs[j].recommended_stake \in 0..10000
    /\ \E j \in 1..Len(history) :
         history[j].stake_pct = 10000 /\ ~history[j].won
    /\ bankroll = DecZero

(***************************************************************************)
(* Claims about analyse.                                                   *)
(***************************************************************************)
\* the five admission checks of a candidate, stated on the table itself
PassProbFloor(row, side) == row[ProbCol(side)] >= cfg.min_prob_threshold

PassSignal(row, side) ==
    /\ ~(side = "over25" /\ row.steam_signal = -1)
    /\ ~(side = "under25" /\ row.steam_signal = 1)

PassOddsFloor(row, side) == MarketOdds(row, side) >= cfg.min_odds

\* |p - 1/odds| <= cap, multiplied through by 100 * odds
PassDisagreement(row, side) ==
    Abs(row[ProbCol(side)] * MarketOdds(row, side) - 10000)
        <= cfg.disagreement_skip * MarketOdds(row, side)

\* p * (odds - 1) - (1 - p) >= min_ev, that is p * odds - 1 >= min_ev
PassEvFloor(row, side) ==
    row[ProbCol(side)] * MarketOdds(row, side) - 10000
        >= cfg.min_ev_threshold * 100

\* the number of the first check the candidate fails, 6 if it fails none
FirstFailing(row, side) ==
    IF ~PassProbFloor(row, side) THEN 1
    ELSE IF ~PassSignal(row, side) THEN 2
    ELSE IF ~PassOddsFloor(row, side) THEN 3
    ELSE IF ~PassDisagreement(row, side) THEN 4
    ELSE IF ~PassEvFloor(row, side) THEN 5
    ELSE 6

CheckNames == <<"prob_floor", "signal", "odds_floor", "disagreement", "ev_floor">>

\* the candidate whose iteration ended last
LastRow == IF bet_on = "under25" THEN row_pos ELSE row_pos - 1

LastSide == IF bet_on = "under25" THEN "over25" ELSE "under25"

\* the last candidate had usable odds, so that it reached the checks
LastReachedChecks == exit_at \notin {"none", "no_odds", "odds_le_1"}

\* C9 as stated: the checks a candidate is evaluated against are the five
\* checks in order up to and including the first it fails, and no later one.
C9_Original ==
    LastReachedChecks
      => LET n == FirstFailing(df[LastRow], LastSide)
         IN  checks_run = SubSeq(CheckNames, 1, IF n > 5 THEN 5 ELSE n)

\* C9 as amended: the probability floor and the signal alignment are always
\* both evaluated and reject together; the odds floor, the disagreement cap
\* and the expected-value floor follow in this order and the evaluation stops
\* at the first of them that fails, where the iteration ends.
C9_ChecksShortCircuit ==
    LastReachedChecks
      => LET n == FirstFailing(df[LastRow], LastSide)
         IN  /\ checks_run
                  = SubSeq(CheckNames, 1,
                           IF n > 5 THEN 5 ELSE IF n < 2 THEN 2 ELSE n)
             /\ exit_at = CASE n \in {1, 2} -> "filtro"
                            [] n = 3 -> "min_odds"
                            [] n = 4 -> "disagreement"
                            [] n = 5 -> "ev"
                            [] n = 6 -> "admitted"

\* C9 witness: a candidate that fails the probability floor and the odds
\* floor was rejected after the signal check, before the odds floor
C9_Witness ==
    /\ LastReachedChecks
    /\ ~PassProbFloor(df[LastRow], LastSide)
    /\ PassSignal(df[LastRow], LastSide)
    /\ ~PassOddsFloor(df[LastRow], LastSide)
    /\ checks_run = <<"prob_floor", "signal">>

\* (idx, side) is in the list of recommendations
Recommended(idx, side) ==
    \E j \in 1..Len(recommendations) :
        /\ recommendations[j].match_index = idx
        /\ recommendations[j].bet_on = side

ClosingOdds(row, side) ==
    IF CloseCol(side) \in columns THEN row[CloseCol(side)] ELSE NaN

OpeningOdds(row, side) ==
    IF OpenCol(side) \in columns THEN row[OpenCol(side)] ELSE NaN

\* C11: the odds analyse uses for a candidate are the closing odds of that
\* outcome when the table holds them, the opening odds only when it does not,
\* and a candidate with no usable odds or with odds <= 1 is not recommended.
C11_OddsSelection ==
    exit_at # "none"
      => LET close == ClosingOdds(df[LastRow], LastSide)
             open  == OpeningOdds(df[LastRow], LastSide)
         IN  /\ close # NaN => last_market_odds = close
             /\ (close = NaN /\ last_market_odds # NaN)
                  => last_market_odds = open
             /\ (last_market_odds = NaN \/ last_market_odds <= 100)
                  => ~Recommended(LastRow - 1, LastSide)

\* C12: the list analyse returns is sorted by expected value, descending:
\* each recommendation's ev is at least the next one's.
C12_SortedByEvDescending ==
    apc = "returned"
      => \A j \in 1..(Len(recommendations) - 1) :
           recommendations[j].ev >= recommendations[j + 1].ev

\* C12 witness: analyse has returned two recommendations of one match, the
\* one appended second (under25) ahead of the one appended first (over25),
\* its expected value being larger
C12_Witness ==
    /\ apc = "returned" /\ Len(recommendations) >= 2
    /\ recommendations[1].match_index = recommendations[2].match_index
    /\ recommendations[1].bet_on = "under25"
    /\ recommendations[2].bet_on = "over25"
    /\ recommendations[1].ev > recommendations[2].ev

\* full Kelly times the fractional-Kelly multiplier, floored at 0, of a bet
\* of probability a/c at odds o (in ten-thousandths): a quotient <<N, D>> in
\* ten-thousandths of the bankroll, from f = (p * o - 1) / (o - 1)
FractionalKelly(a, c, o) ==
    IF o <= 10000 \/ a * o <= c * 10000 THEN <<0, 1>>
    ELSE LET f == Reduce(<<a * o - c * 10000, c * (o - 10000)>>)
         IN  <<f[1] * cfg.fractional_kelly * 100, f[2]>>

\* the quotient of a recommendation, from the table's probability and the
\* odds of the bet, and of a double, from its two legs
RecKelly(rec) ==
    FractionalKelly(df[rec.match_index + 1][ProbCol(rec.bet_on)], 100,
                    rec.market_odds * 100)

DoubleKelly(d) ==
    LET p == Reduce(<<d.leg_1.model_prob * d.leg_2.model_prob, 100000000>>)
    IN  FractionalKelly(p[1], p[2], d.leg_1.market_odds * d.leg_2.market_odds)

\* s (ten-thousandths) is exactly min(x, max_stake_pct)
IsMinWithCap(s, x) ==
    IF x[1] >= cfg.max_stake_pct * x[2] THEN s = cfg.max_stake_pct
    ELSE s * x[2] = x[1]

\* s is min(x, max_stake_pct) rounded to four decimals, a tie going to the
\* even digit
IsRoundedMinWithCap(s, x) ==
    IF x[1] >= cfg.max_stake_pct * x[2] THEN s = cfg.max_stake_pct
    ELSE /\ 2 * Abs(x[1] - s * x[2]) <= x[2]
         /\ 2 * Abs(x[1] - s * x[2]) = x[2] => s % 2 = 0

\* C13 as stated: the recommended_stake of every recommendation and of
\* every double equals min(full Kelly * fractional-Kelly multiplier,
\* max_stake_pct).
C13_Original ==
    /\ \A j \in 1..Len(recommendations) :
         IsMinWithCap(recommendations[j].recommended_stake,
                      RecKelly(recommendations[j]))
    /\ \A j \in 1..Len(doubles) :
         IsMinWithCap(doubles[j].recommended_stake, DoubleKelly(doubles[j]))

\* C13 as amended: the recommended_stake of every recommendation and of
\* every double is min(full Kelly * fractional-Kelly multiplier,
\* max_stake_pct) rounded to four decimals, and lies between 0 and
\* max_stake_pct.
C13_StakeIsRoundedCappedKelly ==
    /\ \A j \in 1..Len(recommendations) :
         /\ IsRoundedMinWithCap(recommendations[j].recommended_stake,
                                RecKelly(recommendations[j]))
         /\ recommendations[j].recommended_stake \in 0..cfg.max_stake_pct
    /\ \A j \in 1..Len(doubles) :
         /\ IsRoundedMinWithCap(doubles[j].recommended_stake,
                                DoubleKelly(doubles[j]))
         /\ doubles[j].recommended_stake \in 0..cfg.max_stake_pct

\* C13 witness: pair_doubles has returned a double staked below the cap,
\* made of a recommendation staked at the cap and one staked below it
C13_Witness ==
    /\ ppc = "returned" /\ Len(doubles) = 1
    /\ doubles[1].recommended_stake > 0
    /\ doubles[1].recommended_stake < cfg.max_stake_pct
    /\ doubles[1].leg_1.recommended_stake = cfg.max_stake_pct
    /\ doubles[1].leg_2.recommended_stake > 0
    /\ doubles[1].leg_2.recommended_stake < cfg.max_stake_pct

(***************************************************************************)
(* Claims about kelly_stake.                                               *)
(***************************************************************************)
\* the edge p * (odds - 1) - (1 - p) of a bet, in ten-thousandths
Edge(p, o) == p * (o - 100) - (100 - p) * 100

\* C14: kelly_stake(p, odds) is never negative, is exactly 0 whenever
\* odds <= 1 or p * (odds - 1) <= 1 - p, and is (b * p - (1 - p)) / b with
\* b = odds - 1 otherwise.
C14_KellyStakeValue ==
    \A j \in 1..Len(k_stakes) :
        LET p == k_probs[j]
            f == k_stakes[j]
        IN  /\ f[2] > 0 /\ f[1] >= 0
            /\ (k_odds <= 100 \/ Edge(p, k_odds) <= 0) => f[1] = 0
            /\ (k_odds > 100 /\ Edge(p, k_odds) > 0)
                 => f[1] * ((k_odds - 100) * 100) = f[2] * Edge(p, k_odds)

\* C14 witness: at odds above 1, a call with a negative edge returned 0 and
\* a call with a positive edge returned a positive stake
C14_Witness ==
    /\ k_odds > 100 /\ Len(k_stakes) = 2
    /\ Edge(k_probs[1], k_odds) < 0 /\ k_stakes[1][1] = 0
    /\ Edge(k_probs[2], k_odds) > 0 /\ k_stakes[2][1] > 0

\* the two calls of a series were made at odds above 1 on probabilities
\* p1 < p2 of [0, 1]
TwoCallsIncreasingProb ==
    /\ k_odds > 100 /\ Len(k_stakes) = 2
    /\ k_probs[1] \in 0..100 /\ k_probs[2] \in 0..100
    /\ k_probs[1] < k_probs[2]

\* C15 as stated: at fixed odds above 1, p1 < p2 gives
\* kelly_stake(p1, odds) < kelly_stake(p2, odds).
C15_Original ==
    TwoCallsIncreasingProb
      => k_stakes[1][1] * k_stakes[2][2] < k_stakes[2][1] * k_stakes[1][2]

\* C15 as amended: at fixed odds above 1, p1 < p2 gives
\* kelly_stake(p1, odds) <= kelly_stake(p2, odds), strictly so whenever
\* kelly_stake(p2, odds) is positive.
C15_IncreasingWherePositive ==
    TwoCallsIncreasingProb
      => /\ k_stakes[1][1] * k_stakes[2][2] <= k_stakes[2][1] * k_stakes[1][2]
         /\ k_stakes[2][1] > 0
              => k_stakes[1][1] * k_stakes[2][2]
                   < k_stakes[2][1] * k_stakes[1][2]

\* C15 witness: two calls on increasing probabilities that both returned a
\* positive stake
C15_Witness ==
    /\ TwoCallsIncreasingProb
    /\ k_stakes[1][1] > 0 /\ k_stakes[2][1] > 0

(***************************************************************************)
(* Claims about pair_doubles.                                              *)
(***************************************************************************)
\* C16: with pairing enabled, pair_doubles makes exactly floor(n / 2) pairs
\* of a list of n bets and leaves at most one bet unpaired.
C16_HalfAsManyPairs ==
    (ppc = "returned" /\ cfg.pairing_enabled)
      => /\ Len(doubles) = Len(pair_recs) \div 2
         /\ Len(sorted_recs) + Len(dropped) <= 1

\* C17: the two legs of every double are bets on distinct matches.
C17_LegsAreDistinctMatches ==
    \A j \in 1..Len(doubles) :
        doubles[j].leg_1.match_index # doubles[j].leg_2.match_index

\* the entries of a list
Entries(list) == { list[i] : i \in 1..Len(list) }

ModelAttributes ==
    <<is_fitted, feature_cols, home_model, away_model, meta_model, calibrator>>

\* the step is a call of the method `name`
IsCall(name) == m_calls' = m_calls + 1 /\ m_call' = name

\* C19: predict_proba and get_feature_importance called on a model on which
\* no fit has completed raise RuntimeError: they return nothing and leave
\* the model as it was.
C19_NotFittedRaises ==
    [][((IsCall("predict_proba") \/ IsCall("get_feature_importance"))
          /\ ~fit_completed)
         => (m_result' = "RuntimeError" /\ UNCHANGED ModelAttributes)]_vars

\* C19 witness: predict_proba raised RuntimeError on a model whose only fit
\* so far raised after constructing the base models
C19_Witness ==
    /\ m_call = "predict_proba" /\ m_result = "RuntimeError"
    /\ ~fit_completed /\ home_model # "None"

\* C20 as stated: evaluate called on a model that has not been fit signals
\* model-not-ready and returns no metrics.
C20_Original ==
    [][(IsCall("evaluate") /\ ~fit_completed)
         => m_result' = "RuntimeError"]_vars

\* C20 as amended: evaluate called on a model that has not been fit never
\* signals model-not-ready: it returns metrics, or fails on the data, and it
\* leaves the model not fit.
C20_EvaluateNeedsNoFit ==
    [][(IsCall("evaluate") /\ ~fit_completed)
         => /\ m_result' \in {"metrics", "data_error"}
            /\ UNCHANGED ModelAttributes
            /\ ~is_fitted']_vars

\* C20 witness: evaluate returned metrics as the first call on a model, which
\* is still not fit
C20_Witness ==
    /\ m_calls = 1 /\ m_call = "evaluate" /\ m_result = "metrics"
    /\ ~fit_completed /\ ~is_fitted

\* C21: a successful fit(df2) on an already fitted model replaces the model
\* state wholesale: afterwards the stored feature-column list is the one
\* detected in df2, and both base regressors, the meta-learner and the
\* calibrator are those this call trained on df2 with these columns.
C21_RefitReplacesWholesale ==
    [][(IsCall("fit") /\ m_result' = "self" /\ is_fitted)
         => /\ feature_cols' = m_data'.detected
            /\ \A a \in SubModels :
                 trained_on'[a] = [call |-> m_calls', data |-> m_data',
                                   features |-> m_data'.detected]]_vars

\* C22: the frame predict_proba returns on a fitted model has prob_over25
\* within [0.01, 0.99] and prob_under25 = 1 - prob_over25, so prob_under25 is
\* within [0.01, 0.99] too and the two sum to 1.
C22_ProbabilitiesClipped ==
    (m_call = "predict_proba" /\ m_result = "probabilities")
      => /\ 10 <= prob_over25 /\ prob_over25 <= 990
         /\ prob_under25 = 1000 - prob_over25
         /\ 10 <= prob_under25 /\ prob_under25 <= 990
         /\ prob_over25 + prob_under25 = 1000

\* C22 witness: predict_proba has returned a frame at the upper bound
C22_Witness ==
    /\ m_call = "predict_proba" /\ m_result = "probabilities"
    /\ prob_over25 = 990 /\ prob_under25 = 10

(***************************************************************************)
(* Claims about the folds of evaluate.                                     *)
(***************************************************************************)
\* the rows of a list of row numbers
RowSet(idx) == { idx[i] : i \in 1..Len(idx) }

\* C23: in every fold of evaluate the training rows are a prefix of the
\* table in its order, the test rows a later contiguous block in its order,
\* the two are disjoint, and the base regressors, the meta-learner and the
\* calibrator of the fold are fitted on the training rows only.
C23_FoldsAreChronological ==
    \A k \in 1..Len(folds) :
        LET f == folds[k]
        IN  /\ Len(f.train_idx) >= 1 /\ Len(f.test_idx) >= 1
            /\ \A i \in 1..Len(f.train_idx) : f.train_idx[i] = i
            /\ \A i \in 1..Len(f.test_idx) :
                 /\ f.test_idx[i] = f.test_idx[1] + i - 1
                 /\ f.test_idx[i] <= Len(eval_df)
            /\ \A i \in 1..Len(f.train_idx), j \in 1..Len(f.test_idx) :
                 f.train_idx[i] < f.test_idx[j]
            /\ RowSet(f.train_idx) \cap RowSet(f.test_idx) = {}
            /\ f.hm = f.train_idx /\ f.am = f.train_idx
            /\ f.mm = f.train_idx /\ f.iso = f.train_idx

\* C23 witness: evaluate has returned after three folds of a five-row table,
\* the first fold training on two rows and testing on the third
C23_Witness ==
    /\ epc = "returned" /\ Len(folds) = 3 /\ Len(eval_df) = 5
    /\ folds[1].train_idx = <<1, 2>> /\ folds[1].test_idx = <<3>>
    /\ folds[3].train_idx = <<1, 2, 3, 4>> /\ folds[3].test_idx = <<5>>

\* the league average of the rows idx, as the claim states it
LeagueAverage(idx) ==
    IF "total_xg" \in eval_columns
    THEN LET total == SumTotalXg(idx)
         IN  <<total \div GCD(total, 20 * Len(idx)),
               (20 * Len(idx)) \div GCD(total, 20 * Len(idx))>>
    ELSE <<13, 10>>

\* C24: the league-average baseline used inside a fold, for its training
\* rows and for its test rows alike, is derived from the fold's training
\* rows only.
C24_BaselineFromTrainingRows ==
    \A k \in 1..Len(folds) :
        /\ folds[k].tr_avg_xg = LeagueAverage(folds[k].train_idx)
        /\ folds[k].te_avg_xg = LeagueAverage(folds[k].train_idx)

(***************************************************************************)
(* Claims about predict_totals.                                            *)
(***************************************************************************)
\* the sum of f over the set S
RECURSIVE SumFn(_, _)
SumFn(f, S) ==
    IF S = {} THEN 0
    ELSE LET x == CHOOSE y \in S : TRUE
         IN  f[x] + SumFn(f, S \ {x})

\* the grid pairs whose total is at most the line
PairsUnderLine ==
    { p \in (0..poisson_max) \X (0..poisson_max) :
        (p[1] + p[2]) * 10 <= ou_line }

\* the joint mass of those pairs, the expected counts floored at 0.01
MassUnderLine ==
    LET lam_a == IF home_xg < 1 THEN 1 ELSE home_xg
        lam_b == IF away_xg < 1 THEN 1 ELSE away_xg
    IN  SumFn([p \in PairsUnderLine |->
                 PoissonPmf(p[1], lam_a) * PoissonPmf(p[2], lam_b)],
              PairsUnderLine)

\* C25: for expected counts >= 0, every line and every largest count >= 0,
\* predict_totals returns a value in [0, 1] equal to 1 minus the summed joint
\* mass of the grid pairs (i, j) with i + j <= line, so over + under = 1; for
\* a line < 0 the result is 1.
C25_OverIsComplementOfGridMass ==
    (tpc = "returned" /\ home_xg >= 0 /\ away_xg >= 0)
      => /\ 0 <= prob_over /\ prob_over <= 100000000
         /\ prob_over = 100000000 - MassUnderLine
         /\ prob_over + prob_under = 100000000
         /\ ou_line < 0 => prob_over = 100000000

\* C25 witness: predict_totals has returned strictly between 0 and 1 for a
\* whole line the grid reaches, one expected count given as 0
C25_Witness ==
    /\ tpc = "returned" /\ home_xg = 0 /\ away_xg = 130
    /\ ou_line = 20 /\ poisson_max = 3
    /\ 0 < prob_over /\ prob_over < 100000000

\* C26: whenever the model is queryable (is_fitted true), the two base
\* regressors, the meta-learner and the calibrator it holds all come from one
\* and the same call of fit.
C26_StagesFromOneFit ==
    is_fitted => \A a, b \in SubModels : trained_on[a].call = trained_on[b].call

(***************************************************************************)
(* Further claims about analyse, pair_doubles and simulate_bankroll.       *)
(***************************************************************************)
\* the recommendation rec reports implied_prob_close, edge and clv as those
\* of the odds o, and its probability is within the disagreement cap of the
\* implied probability of o
ReportsAgainst(rec, o) ==
    LET p == df[rec.match_index + 1][ProbCol(rec.bet_on)]
    IN  /\ o # NaN /\ o > 100
        /\ rec.implied_prob_close = RoundHalfEven(100 * 10000, o)
        /\ rec.edge = RoundHalfEven((p * o - 10000) * 100, o)
        /\ rec.clv = RoundHalfEven((p * o - 10000) * 100, o)
        /\ Abs(p * o - 10000) <= cfg.disagreement_skip * o

\* the disagreement check of the last candidate that reached it came out as
\* the comparison of its probability with the implied probability of o
DisagreementAgainst(o) ==
    LET p == df[LastRow][ProbCol(LastSide)]
    IN  /\ exit_at = "disagreement"
          => (o # NaN /\ Abs(p * o - 10000) > cfg.disagreement_skip * o)
        /\ exit_at \in {"ev", "admitted"}
          => (o # NaN /\ Abs(p * o - 10000) <= cfg.disagreement_skip * o)

C28_EvaluateLeavesModelAlone ==
    [][(m_calls' = m_calls + 1 /\ m_call' = "evaluate")
         => /\ is_fitted' = is_fitted
            /\ feature_cols' = feature_cols
            /\ home_model' = home_model /\ away_model' = away_model
            /\ meta_model' = meta_model /\ calibrator' = calibrator
            /\ trained_on' = trained_on]_vars

\* evaluate has returned its metrics on a fitted model, for a table whose
\* detected columns are not the ones the model stores
C28_Witness ==
    /\ m_call = "evaluate" /\ m_result = "metrics"
    /\ is_fitted /\ feature_cols # <<>>
    /\ m_data.detected # feature_cols


\* the bankroll x after a bet of stake s (ten-thousandths) at odds o
\* (hundredths): x + x*s*(o - 1) when it wins, x - x*s when it loses
AfterBet(x, r) ==
    LET w == DecScale(x, r.recommended_stake * 100, 2)
    IN  IF Wins(r) THEN DecAdd(x, DecScale(w, (r.market_odds - 100) * 10, 1))
        ELSE DecAdd(x, DecNeg(w))

\* a rank of the bets that does not depend on their place in the list; two
\* bets of one rank change the bankroll alike
BetRank(r) ==
    r.recommended_stake * 2000 + r.market_odds * 2 + (IF Wins(r) THEN 1 ELSE 0)

\* the bankroll x after the bets of list l at the positions S, taken by
\* ascending rank whatever their order in l
RECURSIVE AfterBetsByRank(_, _, _)
AfterBetsByRank(x, l, S) ==
    IF S = {} THEN x
    ELSE LET i == CHOOSE i \in S :
                    \A j \in S : BetRank(l[i]) <= BetRank(l[j])
         IN  AfterBetsByRank(AfterBet(x, l[i]), l, S \ {i})

ResolvedAt(l) == { i \in 1..Len(l) : Resolved(l[i]) }

\* the call went through the whole list: the stop-loss never broke the loop
RanToTheEnd == pc = "returned" /\ pos > Len(recs)

\* C29: when the stop-loss does not halt the run, the final bankroll is the
\* initial bankroll taken through the resolved bets in an order fixed by the
\* bets alone, not by their place in the list; so any two orderings of one
\* list that both run to the end finish on the same bankroll (exactly), and
\* two orderings can differ only when the stop-loss halts one of them.
C29_FinalBankrollIgnoresOrder ==
    RanToTheEnd
      => bankroll = AfterBetsByRank(DecOfInt(initial_bankroll), recs,
                                    ResolvedAt(recs))

\* C29 witness: a run to the end that settled three bets, a win before a loss
\* and the bets not in ascending rank
C29_Witness ==
    /\ RanToTheEnd /\ Len(history) = 3 /\ Len(recs) = 3
    /\ Wins(recs[1]) /\ ~Wins(recs[2])
    /\ BetRank(recs[1]) > BetRank(recs[2])
    /\ BetRank(recs[2]) < BetRank(recs[3])
    /\ DecSign(bankroll) > 0


\* the legs of the pairs made so far, in the order they were taken
Legs == [k \in 1..(2 * Len(doubles)) |->
           IF k % 2 = 1 THEN doubles[(k + 1) \div 2].leg_1
           ELSE doubles[k \div 2].leg_2]

\* every leg is an entry of the input list, no entry is a leg twice (in one
\* pair or in two), and leg_1 is at least as probable as leg_2
LegsAreDistinctEntries ==
    /\ \A k \in 1..Len(Legs) :
         /\ Legs[k].match_index + 1 \in 1..Len(pair_recs)
         /\ pair_recs[Legs[k].match_index + 1] = Legs[k]
    /\ \A k, l \in 1..Len(Legs) :
         k # l => Legs[k].match_index # Legs[l].match_index
    /\ \A d \in 1..Len(doubles) :
         doubles[d].leg_1.model_prob >= doubles[d].leg_2.model_prob

\* C30: pair_doubles uses each entry of its input list in at most one pair
\* and never pairs an entry with itself, leg_1 of every pair has calibrated
\* probability >= that of leg_2, and the caller's list is left as it was
\* (same entries, same order).
C30_EntriesPairedOnce ==
    [][LegsAreDistinctEntries' /\ pair_recs' = pair_recs]_vars

\* C30 witness: two pairs returned from an input list that was not in
\* descending order of probability, the first of them with a partner taken
\* from the middle of the sorted list and with legs of unequal probability
C30_Witness ==
    /\ ppc = "returned" /\ Len(doubles) = 2 /\ Len(dropped) = 1
    /\ pair_recs[1].model_prob < pair_recs[2].model_prob
    /\ doubles[1].leg_1.model_prob > doubles[1].leg_2.model_prob

====
